---------------------------- MODULE Spec2Model ----------------------------
(***************************************************************************)
(* The Android native bridge adapter of tsyne:                             *)
(*   android-native/app/src/main/cpp/jni-wrapper.c   (libtsyne-bridge.so)  *)
(*   android-native/app/src/main/cpp/node-runner.cpp (libnode.so)          *)
(*   bridge/ffi_callback.c                                                 *)
(* Host (Java) threads call the JNI entry points; the adapter resolves the *)
(* peer library's entry points lazily, caches them in process-wide         *)
(* globals, and runs the blocking ones on detached worker threads.  Every  *)
(* thread advances one shared-memory access or one library call at a time. *)
(***************************************************************************)
EXTENDS Integers, Sequences, FiniteSets, TLC

(***************************************************************************)
(* Bounds of the model.                                                    *)
(***************************************************************************)
\* host calls made in one run (caps every counter of the model)
MaxCalls == 2
\* render callbacks the peer delivers in one run
MaxCallbacks == 2
\* depth of nested render callback deliveries on one thread
MaxNest == 2
\* clock ticks that make up one settle delay
TicksPerDelay == 1
\* the process id
Pid == 4321
\* length of the longest socket directory the host passes
LongDirLen == 250
\* the longest event string passed to callEventCallback
MaxEventLen == 3

(***************************************************************************)
(* Program constants.                                                      *)
(***************************************************************************)
\* sizeof(g_socketDir)
SocketDirSize == 512
\* sizeof(socketPath) in getBridgeSocketPath
SocketPathSize == 256
\* usleep(500000) after a successful pthread_create
SettleDelayUs == 500000

NULL == "NULL"

(***************************************************************************)
(* C strings are sequences of characters (the terminating NUL is implied). *)
(***************************************************************************)
Min(a, b) == IF a < b THEN a ELSE b

Digit(d) == CASE d = 0 -> "0" [] d = 1 -> "1" [] d = 2 -> "2" [] d = 3 -> "3"
              [] d = 4 -> "4" [] d = 5 -> "5" [] d = 6 -> "6" [] d = 7 -> "7"
              [] d = 8 -> "8" [] d = 9 -> "9"

\* printf's %d of a non-negative int
RECURSIVE FormatInt(_)
FormatInt(n) == IF n < 10 THEN <<Digit(n)>>
                ELSE FormatInt(n \div 10) \o <<Digit(n % 10)>>

\* what snprintf(buf, size, ...) leaves in buf when the formatted text is s
Snprintf(size, s) == SubSeq(s, 1, Min(Len(s), size - 1))

\* strncpy(dst, src, n - 1); dst[n - 1] = '\0'
StrncpyTerminated(n, src) == SubSeq(src, 1, Min(Len(src), n - 1))

DefaultSocketDir ==
    <<"/","d","a","t","a","/","l","o","c","a","l","/","t","m","p">>
SockPrefix == <<"/","t","s","y","n","e","-">>
SockSuffix == <<".","s","o","c","k">>

\* "%s/tsyne-%d.sock"
SocketPathFormat(dir, p) == dir \o SockPrefix \o FormatInt(p) \o SockSuffix

\* a directory name of n characters
DirOfLen(n) == [i \in 1..n |-> IF i = 1 THEN "/" ELSE "x"]
CustomDir == <<"/","t","m","p","/","c","u","s","t","o","m">>

\* a jstring argument: a Java null, or a string whose UTF chars are `chars`
JNull == [isNull |-> TRUE, chars |-> <<>>]
JStr(s) == [isNull |-> FALSE, chars |-> s]


(***************************************************************************)
(* The peer libraries and their entry points.                              *)
(***************************************************************************)
BridgeLib == "libtsyne-bridge.so"
NodeLib == "libnode.so"
Libs == {BridgeLib, NodeLib}

\* the order in which initFunctionPointers looks the entry points up
InitOrder == << "TsyneInit", "StartBridgeMsgpackUDS",
                "StartBridgeMsgpackUDSWithDir", "StartBridgeGrpc",
                "StartBridgeAndroidEmbedded", "SetAndroidRenderCallback",
                "SetAndroidScreenSize", "SendAndroidTouchDown",
                "SendAndroidTouchMove", "SendAndroidTouchUp" >>
BridgeSyms == {InitOrder[i] : i \in 1..Len(InitOrder)}
\* the lookups whose failure makes initFunctionPointers return 0
RequiredSyms == {"TsyneInit", "StartBridgeMsgpackUDS", "StartBridgeGrpc"}
OptionalSyms == BridgeSyms \ RequiredSyms
TouchSyms == {"SendAndroidTouchDown", "SendAndroidTouchMove", "SendAndroidTouchUp"}
NodeStartSym == "_ZN4node5StartEiPPc"

\* status codes a peer entry point may return
RetCodes == {-1, 0, 1}
\* values of the int flags (headless, testMode) and of the pointer ids
Flags == {0, 1}
\* render targets the host may pass: 1 and 2 are objects of two classes that
\* declare onFrame(ByteBuffer,int,int,int), 3 is an object of a class that
\* does not; 0 is a Java null
Targets == {1, 2, 3}
HasOnFrame(target) == target \in {1, 2}
\* GetMethodID(GetObjectClass(target), "onFrame", "(Ljava/nio/ByteBuffer;III)V"):
\* the method id of the target's class, or NULL (0)
GetMethodID(target) == IF HasOnFrame(target) THEN target ELSE 0
\* screen sizes the host reports (portrait and landscape)
Sizes == {<<320, 480>>, <<480, 320>>}
\* socket directories the host passes
DirArgs == {JNull, JStr(CustomDir), JStr(DirOfLen(LongDirLen))}
\* the builds of libtsyne-bridge.so the process may have loaded, each the set
\* of entry points it exports
Libraries ==
    {BridgeSyms, RequiredSyms} \cup {BridgeSyms \ {s} : s \in RequiredSyms}
    \cup {BridgeSyms \ {"StartBridgeMsgpackUDSWithDir"},
          BridgeSyms \ {"StartBridgeAndroidEmbedded"},
          BridgeSyms \ {"SetAndroidRenderCallback", "SetAndroidScreenSize"}}

\* the processes the adapter may find itself in when the host first calls
\* it: what each peer library exports, whether the host has loaded it yet,
\* and whether JNI_OnLoad has run.  Every build, loaded, beside a complete
\* libnode.so; the complete build beside a libnode.so without node::Start;
\* complete libraries not loaded yet; and complete libraries loaded by a
\* JavaVM that has not called JNI_OnLoad.
Process(b, n, loaded, vm) ==
    [exports |-> [l \in Libs |-> IF l = BridgeLib THEN b ELSE n],
     hostLoaded |-> [l \in Libs |-> loaded], vm |-> vm]
Processes ==
    {Process(b, {NodeStartSym}, TRUE, "vm") : b \in Libraries}
    \cup {Process(BridgeSyms, {}, TRUE, "vm"),
          Process(BridgeSyms, {NodeStartSym}, FALSE, "vm"),
          Process(BridgeSyms, {NodeStartSym}, TRUE, NULL)}

\* threads on which the JavaVM and the peer run code of the adapter: 0 is a
\* thread of the peer's own runtime, 1..MaxCalls are the workers the adapter
\* created, in order of creation
PeerThread == 0
NativeThreads == 0..MaxCalls
HostThreads == {"h1", "h2"}

VARIABLES
    \* ---- the process and its libraries
    pid,             \* getpid()
    exports,         \* [Libs -> the entry points the library exports]
    hostLoaded,      \* [Libs -> the host has the library loaded]
    handleRefs,      \* [Libs -> references the adapter's dlopen calls hold]
    crashed,         \* the process died calling a NULL function pointer
    \* ---- jni-wrapper.c globals
    g_bridgeHandle, g_fn, g_socketDir, g_javaVM, g_renderSurface,
    g_onFrameMethod, g_screenWidth, g_screenHeight, g_bridgeThread,
    g_bridgeTestMode,
    \* ---- node-runner.cpp globals
    g_nodeHandle, g_nodeStart, g_nodeThread, g_scriptPath,
    \* ---- the JavaVM and the C heap
    globalRefs,      \* the global references created, each [target, live]
    jvmAttached,     \* [NativeThreads -> attached to the JavaVM]
    heap,            \* the strdup'ed script paths, each [frees]
    \* ---- threads
    hc,              \* [HostThreads -> the JNI call the thread is in]
    workers,         \* the threads pthread_create started, in order
    cb,              \* [NativeThreads -> stack of nativeRenderCallback frames]
    peerCallback,    \* the peer holds nativeRenderCallback
    \* ---- observations
    ncalls,          \* host calls made so far
    ncb,             \* render callbacks delivered so far
    lookups,         \* [library or entry point name -> dlopen/dlsym calls]
    storedDir,       \* the directory argument last copied into g_socketDir
    cbExit,          \* the last return of nativeRenderCallback
    dispatch         \* the last CallVoidMethod made by nativeRenderCallback

envVars == <<pid, exports, hostLoaded, handleRefs, crashed>>
bridgeFnVars == <<g_bridgeHandle, g_fn>>
bridgeVars == <<g_socketDir, g_javaVM, g_renderSurface, g_onFrameMethod,
                g_screenWidth, g_screenHeight, g_bridgeThread, g_bridgeTestMode>>
nodeVars == <<g_nodeHandle, g_nodeStart, g_nodeThread, g_scriptPath>>
jvmVars == <<globalRefs, jvmAttached>>
cbVars == <<cb, peerCallback, ncb, cbExit, dispatch>>
vars == <<envVars, bridgeFnVars, bridgeVars, nodeVars, jvmVars, heap, hc, workers,
          cbVars, ncalls, lookups, storedDir>>

\* the cached entry points, by the names the source gives them
g_TsyneInit == g_fn["TsyneInit"]
g_StartBridgeMsgpackUDS == g_fn["StartBridgeMsgpackUDS"]
g_StartBridgeMsgpackUDSWithDir == g_fn["StartBridgeMsgpackUDSWithDir"]
g_StartBridgeGrpc == g_fn["StartBridgeGrpc"]
g_StartBridgeAndroidEmbedded == g_fn["StartBridgeAndroidEmbedded"]
g_SetAndroidRenderCallback == g_fn["SetAndroidRenderCallback"]
g_SetAndroidScreenSize == g_fn["SetAndroidScreenSize"]
g_SendAndroidTouchDown == g_fn["SendAndroidTouchDown"]
g_SendAndroidTouchMove == g_fn["SendAndroidTouchMove"]
g_SendAndroidTouchUp == g_fn["SendAndroidTouchUp"]

(***************************************************************************)
(* The dynamic linker.                                                     *)
(***************************************************************************)
\* a library is in the process while the host or a dlopen handle holds it
Loaded(lib) == hostLoaded[lib] \/ handleRefs[lib] > 0

\* dlopen(lib, RTLD_NOW | RTLD_NOLOAD): the handle of a library that is
\* already loaded (its reference count goes up), or NULL; never loads
\* a plain dlopen: it maps the library when the process has not loaded it
DlopenLoading(lib) == lib

DlopenNoLoad(lib) == IF Loaded(lib) THEN lib ELSE NULL

\* dlsym(handle, name)
Dlsym(handle, name) ==
    IF handle \in Libs /\ name \in exports[handle] THEN name ELSE NULL

Count(name) == lookups' = [lookups EXCEPT ![name] = @ + 1]

(***************************************************************************)
(* One call of a peer entry point, as the peer sees it.                    *)
(***************************************************************************)
Inv(f, i, w, h, s) == [f |-> f, i |-> i, w |-> w, h |-> h, s |-> s]

(***************************************************************************)
(* A host thread's JNI call: the operation, its arguments, where the       *)
(* thread is in it (pc, and ipc inside initFunctionPointers), its result,  *)
(* and what it has done so far.                                            *)
(***************************************************************************)
IdleCall ==
    [op |-> "none", pc |-> "idle", ipc |-> 0,
     flag |-> 0, dir |-> JNull, width |-> 0, height |-> 0, target |-> 0,
     script |-> JNull, ret |-> 0, status |-> 0, str |-> <<>>,
     peer |-> <<>>, fx |-> {}, libSeen |-> FALSE, slept |-> 0]

Free(t) == hc[t].pc \in {"idle", "done"}
At(t, op, pc) == hc[t].op = op /\ hc[t].pc = pc

\* the thread enters operation op at pc, with arguments args
Enter(t, op, pc, args) ==
    /\ ~crashed
    /\ Free(t)
    /\ ncalls < MaxCalls
    /\ ncalls' = ncalls + 1
    /\ hc' = [hc EXCEPT ![t] = [f \in DOMAIN IdleCall |->
                 IF f \in DOMAIN args THEN args[f]
                 ELSE IF f = "op" THEN op
                 ELSE IF f = "pc" THEN pc
                 ELSE IF f = "libSeen" THEN
                     Loaded(IF op = "startNode" THEN NodeLib ELSE BridgeLib)
                 ELSE IdleCall[f]]]

\* the call returns r
Return(c, r) == [c EXCEPT !.pc = "done", !.ret = r]


(***************************************************************************)
(* initFunctionPointers, as run by host thread t.                          *)
(***************************************************************************)
\* where an operation continues when initFunctionPointers returned 1
BodyPc(op) == CASE op = "startBridgeInBackground" -> "bg_dir"
                [] op = "startEmbeddedBridge" -> "emb_avail"
                [] OTHER -> "invoke"

\* `if (!initFunctionPointers()) return -1;`
InitReturn(c, r) == IF r = 0 THEN Return(c, -1)
                    ELSE [c EXCEPT !.pc = BodyPc(c.op)]

\* an initFunctionPointers that gives up on any failed lookup
IsRequiredEvery(name) == TRUE

\* the lookups after which initFunctionPointers gives up when they fail
IsRequired(name) == name \in RequiredSyms

InitOps == {"TsyneInit", "StartBridgeMsgpackUDS", "StartBridgeGrpc",
            "startBridgeInBackground", "startEmbeddedBridge"}

\* `if (g_TsyneInit != NULL) return 1;`
AlreadyInitialized == g_TsyneInit # NULL

InitCheck(t) ==
    /\ ~crashed
    /\ hc[t].op \in InitOps /\ hc[t].pc = "init_check"
    /\ hc' = [hc EXCEPT ![t] = IF AlreadyInitialized THEN InitReturn(@, 1)
                               ELSE [@ EXCEPT !.pc = "init_dlopen"]]
    /\ UNCHANGED <<envVars, bridgeFnVars, bridgeVars, nodeVars, jvmVars, heap,
                   workers, cbVars, ncalls, lookups, storedDir>>

InitDlopen(t) ==
    /\ ~crashed
    /\ hc[t].op \in InitOps /\ hc[t].pc = "init_dlopen"
    /\ LET h == DlopenNoLoad(BridgeLib) IN
        /\ g_bridgeHandle' = h
        /\ handleRefs' = [handleRefs EXCEPT ![BridgeLib] =
                              IF h # NULL THEN @ + 1 ELSE @]
        /\ hc' = [hc EXCEPT ![t] = IF h = NULL THEN InitReturn(@, 0)
                                   ELSE [@ EXCEPT !.pc = "init_dlsym", !.ipc = 1]]
    /\ Count(BridgeLib)
    /\ UNCHANGED <<pid, exports, hostLoaded, crashed, g_fn, bridgeVars, nodeVars,
                   jvmVars, heap, workers, cbVars, ncalls, storedDir>>

InitDlsym(t) ==
    /\ ~crashed
    /\ hc[t].op \in InitOps /\ hc[t].pc = "init_dlsym"
    /\ LET name == InitOrder[hc[t].ipc]
           p == Dlsym(g_bridgeHandle, name) IN
        /\ g_fn' = [g_fn EXCEPT ![name] = p]
        /\ Count(name)
        /\ hc' = [hc EXCEPT ![t] =
                    IF p = NULL /\ IsRequired(name) THEN InitReturn(@, 0)
                    ELSE IF @.ipc = Len(InitOrder) THEN InitReturn(@, 1)
                    ELSE [@ EXCEPT !.ipc = @ + 1]]
    /\ UNCHANGED <<envVars, g_bridgeHandle, bridgeVars, nodeVars, jvmVars, heap,
                   workers, cbVars, ncalls, storedDir>>

(***************************************************************************)
(* TsyneInit, StartBridgeMsgpackUDS, StartBridgeGrpc: the pass-through     *)
(* calls.                                                                  *)
(***************************************************************************)
SyncOps == {"TsyneInit", "StartBridgeMsgpackUDS", "StartBridgeGrpc"}

CallSync(t) ==
    \E op \in SyncOps, flag \in Flags :
        /\ Enter(t, op, "init_check", [flag |-> flag])
        /\ UNCHANGED <<envVars, bridgeFnVars, bridgeVars, nodeVars, jvmVars, heap,
                       workers, cbVars, lookups, storedDir>>

\* a pass-through that hides the peer's failures
ResultNonNegative(r) == IF r < 0 THEN 0 ELSE r

\* `int result = g_X(arg); return result;`: the peer's int as the call's jint
Result(r) == r

\* `int result = g_X(arg); return result;`: calling through a NULL pointer
\* kills the process; status is what the peer returned
InvokeSync(t) ==
    /\ ~crashed
    /\ hc[t].op \in SyncOps /\ hc[t].pc = "invoke"
    /\ IF g_fn[hc[t].op] = NULL
       THEN /\ crashed' = TRUE
            /\ hc' = [hc EXCEPT ![t].pc = "crashed"]
       ELSE /\ crashed' = crashed
            /\ \E r \in RetCodes :
                 hc' = [hc EXCEPT ![t] =
                    Return([@ EXCEPT !.status = r,
                                     !.peer = Append(@, Inv(g_fn[hc[t].op],
                                           hc[t].flag, 0, 0, <<>>))],
                           Result(r))]
    /\ UNCHANGED <<pid, exports, hostLoaded, handleRefs, bridgeFnVars, bridgeVars,
                   nodeVars, jvmVars, heap, workers, cbVars, ncalls, lookups,
                   storedDir>>


(***************************************************************************)
(* The socket directory: the copy both launch operations make, and         *)
(* getBridgeSocketPath.                                                    *)
(***************************************************************************)
\* `if (socketDir != NULL) { dir = GetStringUTFChars(...); if (dir != NULL)
\*  { strncpy(g_socketDir, dir, sizeof - 1); g_socketDir[sizeof - 1] = 0; } }`
\* GetStringUTFChars may return NULL (out of memory)
StoreSocketDir(t, next) ==
    \E charsOk \in BOOLEAN :
        /\ hc[t].dir.isNull => charsOk
        /\ IF ~hc[t].dir.isNull /\ charsOk
           THEN /\ g_socketDir' = StrncpyTerminated(SocketDirSize, hc[t].dir.chars)
                /\ storedDir' = JStr(hc[t].dir.chars)
                /\ hc' = [hc EXCEPT ![t].pc = next, ![t].fx = @ \cup {"dir"}]
           ELSE /\ UNCHANGED <<g_socketDir, storedDir>>
                /\ hc' = [hc EXCEPT ![t].pc = next]

\* `socketDir = g_socketDir[0] != '\0' ? g_socketDir : "/data/local/tmp";
\*  snprintf(socketPath, sizeof(socketPath), "%s/tsyne-%d.sock", socketDir, getpid())`
SocketPath(dir, p) ==
    Snprintf(SocketPathSize,
             SocketPathFormat(IF dir # <<>> THEN dir ELSE DefaultSocketDir, p))

getBridgeSocketPath(t) ==
    /\ Enter(t, "getBridgeSocketPath", "done",
             [str |-> SocketPath(g_socketDir, pid)])
    /\ UNCHANGED <<envVars, bridgeFnVars, bridgeVars, nodeVars, jvmVars, heap,
                   workers, cbVars, lookups, storedDir>>

(***************************************************************************)
(* Worker threads.                                                         *)
(***************************************************************************)
\* a thread pthread_create has just started: its start routine (kind) and
\* its argument; what the call that created it had set for it (the render
\* target it registered, its testMode, the socket directory in effect); the
\* steps the thread has taken and the status its peer call returned (which
\* the thread only logs)
NewWorker(kind, arg, target, mode, dir) ==
    [kind |-> kind, pc |-> "start", arg |-> arg, testMode |-> 0,
     peer |-> <<>>, target |-> target, mode |-> mode, dir |-> dir,
     trace |-> <<>>, status |-> 0]

Live(w) == workers[w].pc # "done"
LiveWorkers(kind) == {w \in DOMAIN workers : workers[w].kind = kind /\ Live(w)}

\* a launch that does not wait
SleepDoneAtOnce(c) == TRUE

\* the settle delay has elapsed on the calling thread
SleepDone(c) == c.slept >= SettleDelayUs

\* time passes for a thread inside usleep(500000)
Tick(t) ==
    /\ ~crashed
    /\ hc[t].pc = "usleep"
    /\ ~SleepDone(hc[t])
    /\ hc' = [hc EXCEPT ![t].slept = @ + SettleDelayUs \div TicksPerDelay]
    /\ UNCHANGED <<envVars, bridgeFnVars, bridgeVars, nodeVars, jvmVars, heap,
                   workers, cbVars, ncalls, lookups, storedDir>>

\* a launch that reports what its worker has logged so far
AcknowledgeStatus(c) ==
    Return(c, IF \E w \in DOMAIN workers : workers[w].status < 0 THEN -1 ELSE 0)

\* `return 0;` once the worker has been created
Acknowledge(c) == Return(c, 0)

\* usleep returns; `return 0;`
Wake(t) ==
    /\ ~crashed
    /\ hc[t].pc = "usleep"
    /\ SleepDone(hc[t])
    /\ hc' = [hc EXCEPT ![t] = Acknowledge(@)]
    /\ UNCHANGED <<envVars, bridgeFnVars, bridgeVars, nodeVars, jvmVars, heap,
                   workers, cbVars, ncalls, lookups, storedDir>>

(***************************************************************************)
(* startBridgeInBackground                                                 *)
(***************************************************************************)
CallStartBridgeInBackground(t) ==
    \E flag \in Flags, dir \in DirArgs :
        /\ Enter(t, "startBridgeInBackground", "init_check",
                 [flag |-> flag, dir |-> dir])
        /\ UNCHANGED <<envVars, bridgeFnVars, bridgeVars, nodeVars, jvmVars, heap,
                       workers, cbVars, lookups, storedDir>>

BgDir(t) ==
    /\ ~crashed
    /\ At(t, "startBridgeInBackground", "bg_dir")
    /\ StoreSocketDir(t, "bg_mode")
    /\ UNCHANGED <<envVars, bridgeFnVars, g_javaVM, g_renderSurface,
                   g_onFrameMethod, g_screenWidth, g_screenHeight, g_bridgeThread,
                   g_bridgeTestMode, nodeVars, jvmVars, heap, workers, cbVars,
                   ncalls, lookups>>

\* `g_bridgeTestMode = testMode;`
BgMode(t) ==
    /\ ~crashed
    /\ At(t, "startBridgeInBackground", "bg_mode")
    /\ g_bridgeTestMode' = hc[t].flag
    /\ hc' = [hc EXCEPT ![t].pc = "bg_create"]
    /\ UNCHANGED <<envVars, bridgeFnVars, g_socketDir, g_javaVM, g_renderSurface,
                   g_onFrameMethod, g_screenWidth, g_screenHeight, g_bridgeThread,
                   nodeVars, jvmVars, heap, workers, cbVars, ncalls, lookups,
                   storedDir>>

\* `pthread_create(&g_bridgeThread, NULL, bridgeThreadFunc, &g_bridgeTestMode)`
BgCreate(t) ==
    /\ ~crashed
    /\ At(t, "startBridgeInBackground", "bg_create")
    /\ \E created \in BOOLEAN :
        IF created
        THEN /\ workers' = Append(workers, NewWorker("bridge", 0, 0, hc[t].flag, g_socketDir))
             /\ g_bridgeThread' = Len(workers) + 1
             /\ hc' = [hc EXCEPT ![t].pc = "usleep", ![t].fx = @ \cup {"thread"}]
        ELSE /\ UNCHANGED <<workers, g_bridgeThread>>
             /\ hc' = [hc EXCEPT ![t] = Return(@, -2)]
    /\ UNCHANGED <<envVars, bridgeFnVars, g_socketDir, g_javaVM, g_renderSurface,
                   g_onFrameMethod, g_screenWidth, g_screenHeight,
                   g_bridgeTestMode, nodeVars, jvmVars, heap, cbVars, ncalls,
                   lookups, storedDir>>

(***************************************************************************)
(* startEmbeddedBridge                                                     *)
(***************************************************************************)
\* NewGlobalRef appends a live reference; a reference is its index
NewGlobalRef(refs, target) == Append(refs, [target |-> target, live |-> TRUE])

\* a DeleteGlobalRef that releases nothing
DeleteGlobalRefLeak(refs, ref) == refs

\* DeleteGlobalRef(env, ref); deleting NULL does nothing
DeleteGlobalRef(refs, ref) ==
    IF ref = 0 THEN refs ELSE [refs EXCEPT ![ref].live = FALSE]

CallStartEmbeddedBridge(t, sizes, dirs, targets) ==
    \E sz \in sizes, dir \in dirs, target \in targets :
        /\ Enter(t, "startEmbeddedBridge", "init_check",
                 [width |-> sz[1], height |-> sz[2], dir |-> dir,
                  target |-> target])
        /\ UNCHANGED <<envVars, bridgeFnVars, bridgeVars, nodeVars, jvmVars, heap,
                       workers, cbVars, lookups, storedDir>>

\* `if (g_StartBridgeAndroidEmbedded == NULL) return -2;`
EmbAvail(t) ==
    /\ ~crashed
    /\ At(t, "startEmbeddedBridge", "emb_avail")
    /\ hc' = [hc EXCEPT ![t] = IF g_StartBridgeAndroidEmbedded = NULL
                               THEN Return(@, -2)
                               ELSE [@ EXCEPT !.pc = "emb_size"]]
    /\ UNCHANGED <<envVars, bridgeFnVars, bridgeVars, nodeVars, jvmVars, heap,
                   workers, cbVars, ncalls, lookups, storedDir>>

\* `g_screenWidth = width; g_screenHeight = height;`
EmbSize(t) ==
    /\ ~crashed
    /\ At(t, "startEmbeddedBridge", "emb_size")
    /\ g_screenWidth' = hc[t].width
    /\ g_screenHeight' = hc[t].height
    /\ hc' = [hc EXCEPT ![t].pc = "emb_dir", ![t].fx = @ \cup {"size"}]
    /\ UNCHANGED <<envVars, bridgeFnVars, g_socketDir, g_javaVM, g_renderSurface,
                   g_onFrameMethod, g_bridgeThread, g_bridgeTestMode, nodeVars,
                   jvmVars, heap, workers, cbVars, ncalls, lookups, storedDir>>

EmbDir(t) ==
    /\ ~crashed
    /\ At(t, "startEmbeddedBridge", "emb_dir")
    /\ StoreSocketDir(t, IF hc[t].target # 0 THEN "emb_ref" ELSE "emb_create")
    /\ UNCHANGED <<envVars, bridgeFnVars, g_javaVM, g_renderSurface,
                   g_onFrameMethod, g_screenWidth, g_screenHeight, g_bridgeThread,
                   g_bridgeTestMode, nodeVars, jvmVars, heap, workers, cbVars,
                   ncalls, lookups>>

\* `g_renderSurface = NewGlobalRef(env, renderTarget);`
EmbRef(t) ==
    /\ ~crashed
    /\ At(t, "startEmbeddedBridge", "emb_ref")
    /\ globalRefs' = NewGlobalRef(globalRefs, hc[t].target)
    /\ g_renderSurface' = Len(globalRefs')
    /\ hc' = [hc EXCEPT ![t].pc = "emb_method", ![t].fx = @ \cup {"target"}]
    /\ UNCHANGED <<envVars, bridgeFnVars, g_socketDir, g_javaVM, g_onFrameMethod,
                   g_screenWidth, g_screenHeight, g_bridgeThread,
                   g_bridgeTestMode, nodeVars, jvmAttached, heap, workers, cbVars,
                   ncalls, lookups, storedDir>>

\* `g_onFrameMethod = GetMethodID(env, targetClass, "onFrame", ...);`
EmbMethod(t) ==
    /\ ~crashed
    /\ At(t, "startEmbeddedBridge", "emb_method")
    /\ g_onFrameMethod' = GetMethodID(hc[t].target)
    /\ hc' = [hc EXCEPT ![t].pc = "emb_check"]
    /\ UNCHANGED <<envVars, bridgeFnVars, g_socketDir, g_javaVM, g_renderSurface,
                   g_screenWidth, g_screenHeight, g_bridgeThread,
                   g_bridgeTestMode, nodeVars, jvmVars, heap, workers, cbVars,
                   ncalls, lookups, storedDir>>

\* `if (g_onFrameMethod == NULL) {`
EmbCheck(t) ==
    /\ ~crashed
    /\ At(t, "startEmbeddedBridge", "emb_check")
    /\ hc' = [hc EXCEPT ![t].pc = IF g_onFrameMethod = 0 THEN "emb_delete"
                                  ELSE "emb_create"]
    /\ UNCHANGED <<envVars, bridgeFnVars, bridgeVars, nodeVars, jvmVars, heap,
                   workers, cbVars, ncalls, lookups, storedDir>>

\* `DeleteGlobalRef(env, g_renderSurface);`
EmbDelete(t) ==
    /\ ~crashed
    /\ At(t, "startEmbeddedBridge", "emb_delete")
    /\ globalRefs' = DeleteGlobalRef(globalRefs, g_renderSurface)
    /\ hc' = [hc EXCEPT ![t].pc = "emb_clear"]
    /\ UNCHANGED <<envVars, bridgeFnVars, bridgeVars, nodeVars, jvmAttached, heap,
                   workers, cbVars, ncalls, lookups, storedDir>>

\* `g_renderSurface = NULL; return -3; }`
EmbClear(t) ==
    /\ ~crashed
    /\ At(t, "startEmbeddedBridge", "emb_clear")
    /\ g_renderSurface' = 0
    /\ hc' = [hc EXCEPT ![t] = Return(@, -3)]
    /\ UNCHANGED <<envVars, bridgeFnVars, g_socketDir, g_javaVM, g_onFrameMethod,
                   g_screenWidth, g_screenHeight, g_bridgeThread,
                   g_bridgeTestMode, nodeVars, jvmVars, heap, workers, cbVars,
                   ncalls, lookups, storedDir>>

\* `pthread_create(&g_bridgeThread, NULL, embeddedBridgeThreadFunc, NULL)`
EmbCreate(t) ==
    /\ ~crashed
    /\ At(t, "startEmbeddedBridge", "emb_create")
    /\ \E created \in BOOLEAN :
        IF created
        THEN /\ workers' = Append(workers, NewWorker("embedded", 0, hc[t].target, 0, g_socketDir))
             /\ g_bridgeThread' = Len(workers) + 1
             /\ hc' = [hc EXCEPT ![t].pc = "usleep", ![t].fx = @ \cup {"thread"}]
        ELSE /\ UNCHANGED <<workers, g_bridgeThread>>
             /\ hc' = [hc EXCEPT ![t] = Return(@, -4)]
    /\ UNCHANGED <<envVars, bridgeFnVars, g_socketDir, g_javaVM, g_renderSurface,
                   g_onFrameMethod, g_screenWidth, g_screenHeight,
                   g_bridgeTestMode, nodeVars, jvmVars, heap, cbVars, ncalls,
                   lookups, storedDir>>

(***************************************************************************)
(* setScreenSize and the touch events: they never resolve anything.        *)
(***************************************************************************)
CallSetScreenSize(t) ==
    \E sz \in Sizes :
        /\ Enter(t, "setScreenSize", "ss_store",
                 [width |-> sz[1], height |-> sz[2]])
        /\ UNCHANGED <<envVars, bridgeFnVars, bridgeVars, nodeVars, jvmVars, heap,
                       workers, cbVars, lookups, storedDir>>

\* `g_screenWidth = width; g_screenHeight = height;`
SsStore(t) ==
    /\ ~crashed
    /\ At(t, "setScreenSize", "ss_store")
    /\ g_screenWidth' = hc[t].width
    /\ g_screenHeight' = hc[t].height
    /\ hc' = [hc EXCEPT ![t].pc = "ss_call", ![t].fx = @ \cup {"size"}]
    /\ UNCHANGED <<envVars, bridgeFnVars, g_socketDir, g_javaVM, g_renderSurface,
                   g_onFrameMethod, g_bridgeThread, g_bridgeTestMode, nodeVars,
                   jvmVars, heap, workers, cbVars, ncalls, lookups, storedDir>>

\* `if (g_X != NULL) g_X(args);`: what the peer sees of it
CallIfResolved(name, i, w, h) ==
    IF g_fn[name] # NULL THEN <<Inv(g_fn[name], i, w, h, <<>>)>> ELSE <<>>

\* `if (g_SetAndroidScreenSize != NULL) g_SetAndroidScreenSize(width, height);`
SsCall(t) ==
    /\ ~crashed
    /\ At(t, "setScreenSize", "ss_call")
    /\ hc' = [hc EXCEPT ![t] =
                Return([@ EXCEPT !.peer = CallIfResolved("SetAndroidScreenSize",
                                              0, hc[t].width, hc[t].height)], 0)]
    /\ UNCHANGED <<envVars, bridgeFnVars, bridgeVars, nodeVars, jvmVars, heap,
                   workers, cbVars, ncalls, lookups, storedDir>>

TouchOps == {"sendTouchDown", "sendTouchMove", "sendTouchUp"}
TouchSym(op) == CASE op = "sendTouchDown" -> "SendAndroidTouchDown"
                  [] op = "sendTouchMove" -> "SendAndroidTouchMove"
                  [] op = "sendTouchUp" -> "SendAndroidTouchUp"

\* sendTouchDown, sendTouchMove, sendTouchUp
sendTouch(t) ==
    \E op \in TouchOps, pointerId \in Flags :
        /\ Enter(t, op, "done",
                 [flag |-> pointerId, width |-> 10, height |-> 20,
                  peer |-> CallIfResolved(TouchSym(op), pointerId, 10, 20)])
        /\ UNCHANGED <<envVars, bridgeFnVars, bridgeVars, nodeVars, jvmVars, heap,
                       workers, cbVars, lookups, storedDir>>


(***************************************************************************)
(* bridgeThreadFunc                                                        *)
(***************************************************************************)
SetWorker(w, f) == workers' = [workers EXCEPT ![w] = f]

\* `int testMode = *((int*)arg);` with arg = &g_bridgeTestMode
BridgeRead(w) ==
    /\ ~crashed
    /\ workers[w].kind = "bridge" /\ workers[w].pc = "start"
    /\ SetWorker(w, [workers[w] EXCEPT !.testMode = g_bridgeTestMode,
                                       !.pc = "choose"])
    /\ UNCHANGED <<envVars, bridgeFnVars, bridgeVars, nodeVars, jvmVars, heap, hc,
                   cbVars, ncalls, lookups, storedDir>>

\* the entry point the bridge worker starts the server with
UseWithDir == g_socketDir # <<>> /\ g_StartBridgeMsgpackUDSWithDir # NULL

BridgeCall(w) ==
    /\ ~crashed
    /\ workers[w].kind = "bridge" /\ workers[w].pc = "choose"
    /\ IF UseWithDir
       THEN /\ SetWorker(w, [workers[w] EXCEPT !.pc = "blocked",
                   !.peer = Append(@, Inv(g_StartBridgeMsgpackUDSWithDir,
                                          workers[w].testMode, 0, 0, g_socketDir))])
            /\ crashed' = crashed
       ELSE IF g_StartBridgeMsgpackUDS = NULL
       THEN /\ SetWorker(w, [workers[w] EXCEPT !.pc = "crashed"])
            /\ crashed' = TRUE
       ELSE /\ SetWorker(w, [workers[w] EXCEPT !.pc = "blocked",
                   !.peer = Append(@, Inv(g_StartBridgeMsgpackUDS,
                                          workers[w].testMode, 0, 0, <<>>))])
            /\ crashed' = crashed
    /\ UNCHANGED <<pid, exports, hostLoaded, handleRefs, bridgeFnVars, bridgeVars,
                   nodeVars, jvmVars, heap, hc, cbVars, ncalls, lookups,
                   storedDir>>

\* the blocking peer call returns (it may never do so) one of the status
\* codes; the status is logged
PeerReturns(w, codes) ==
    /\ ~crashed
    /\ workers[w].pc = "blocked"
    /\ cb[w] = <<>>
    /\ \E status \in codes :
         SetWorker(w, [workers[w] EXCEPT !.status = status,
                         !.trace = Append(@, "returned"), !.pc =
                         IF workers[w].kind = "bridge" THEN "done" ELSE "returned"])
    /\ UNCHANGED <<envVars, bridgeFnVars, bridgeVars, nodeVars, jvmVars, heap, hc,
                   cbVars, ncalls, lookups, storedDir>>

(***************************************************************************)
(* embeddedBridgeThreadFunc                                                *)
(***************************************************************************)
\* a worker that does not check the JavaVM it attaches to
AttachesUnchecked(vm, attachOk) == attachOk

\* the worker goes on only with a known JavaVM and a successful attach
Attaches(vm, attachOk) == vm # NULL /\ attachOk

\* `if (g_javaVM != NULL) { if (AttachCurrentThread(...) != JNI_OK) return NULL; }
\*  else return NULL;`
EmbWorkerAttach(w) ==
    /\ ~crashed
    /\ workers[w].kind = "embedded" /\ workers[w].pc = "start"
    /\ \E attachOk \in BOOLEAN :
        IF Attaches(g_javaVM, attachOk)
        THEN /\ jvmAttached' = [jvmAttached EXCEPT ![w] = TRUE]
             /\ SetWorker(w, [workers[w] EXCEPT !.pc = "attached",
                                                !.trace = Append(@, "attach")])
        ELSE /\ jvmAttached' = jvmAttached
             /\ SetWorker(w, [workers[w] EXCEPT !.pc = "done"])
    /\ UNCHANGED <<envVars, bridgeFnVars, bridgeVars, nodeVars, globalRefs, heap,
                   hc, cbVars, ncalls, lookups, storedDir>>

\* `if (g_SetAndroidRenderCallback != NULL)
\*      g_SetAndroidRenderCallback((void*)nativeRenderCallback);`
EmbWorkerRegister(w) ==
    /\ ~crashed
    /\ workers[w].kind = "embedded" /\ workers[w].pc = "attached"
    /\ IF g_SetAndroidRenderCallback # NULL
       THEN /\ peerCallback' = TRUE
            /\ SetWorker(w, [workers[w] EXCEPT !.pc = "registered",
                   !.trace = Append(@, "register"),
                   !.peer = Append(@, Inv(g_SetAndroidRenderCallback, 0, 0, 0,
                                          <<>>))])
       ELSE /\ peerCallback' = peerCallback
            /\ SetWorker(w, [workers[w] EXCEPT !.pc = "registered"])
    /\ UNCHANGED <<envVars, bridgeFnVars, bridgeVars, nodeVars, jvmVars, heap, hc,
                   cb, ncb, cbExit, dispatch, ncalls, lookups, storedDir>>

\* `if (g_StartBridgeAndroidEmbedded != NULL)
\*      g_StartBridgeAndroidEmbedded(g_screenWidth, g_screenHeight, g_socketDir);`
EmbWorkerStart(w) ==
    /\ ~crashed
    /\ workers[w].kind = "embedded" /\ workers[w].pc = "registered"
    /\ IF g_StartBridgeAndroidEmbedded # NULL
       THEN SetWorker(w, [workers[w] EXCEPT !.pc = "blocked",
                !.trace = Append(@, "start"),
                !.peer = Append(@, Inv(g_StartBridgeAndroidEmbedded, 0,
                                       g_screenWidth, g_screenHeight, g_socketDir))])
       ELSE SetWorker(w, [workers[w] EXCEPT !.pc = "returned"])
    /\ UNCHANGED <<envVars, bridgeFnVars, bridgeVars, nodeVars, jvmVars, heap, hc,
                   cbVars, ncalls, lookups, storedDir>>

\* `if (g_javaVM != NULL) DetachCurrentThread(g_javaVM); return NULL;`
EmbWorkerDetach(w) ==
    /\ ~crashed
    /\ workers[w].kind = "embedded" /\ workers[w].pc = "returned"
    /\ jvmAttached' = [jvmAttached EXCEPT ![w] = IF g_javaVM # NULL THEN FALSE
                                                  ELSE @]
    /\ SetWorker(w, [workers[w] EXCEPT !.pc = "done",
           !.trace = IF g_javaVM # NULL THEN Append(@, "detach") ELSE @])
    /\ UNCHANGED <<envVars, bridgeFnVars, bridgeVars, nodeVars, globalRefs, heap,
                   hc, cbVars, ncalls, lookups, storedDir>>


(***************************************************************************)
(* nativeRenderCallback, as the peer calls it on native thread T.  A frame *)
(* holds the call's locals (attached, buffer), where it is, whether T was  *)
(* attached to the JavaVM when the call began, and the path it took.       *)
(***************************************************************************)
Top(T) == cb[T][Len(cb[T])]
SetTop(T, f) == cb' = [cb EXCEPT ![T] = [@ EXCEPT ![Len(@)] = f]]
InCallback(T, pc) == cb[T] # <<>> /\ Top(T).pc = pc

\* threads the peer may call back on: its own runtime thread, and an embedded
\* worker that is inside StartBridgeAndroidEmbedded
PeerRunsOn(T) ==
    \/ T = PeerThread
    \/ /\ T \in DOMAIN workers
       /\ workers[T].kind = "embedded"
       /\ workers[T].pc = "blocked"

\* the peer calls nativeRenderCallback(pixels, width, height, stride), also
\* from inside the onFrame method a callback on the same thread is running
Deliver(T) ==
    /\ ~crashed
    /\ peerCallback
    /\ PeerRunsOn(T)
    /\ ncb < MaxCallbacks
    /\ Len(cb[T]) < MaxNest
    /\ IF cb[T] = <<>> THEN TRUE ELSE Top(T).pc = "java"
    /\ cb' = [cb EXCEPT ![T] = Append(@, [pc |-> "check", attached |-> 0,
                  buffer |-> FALSE, entry |-> jvmAttached[T], path |-> "none"])]
    /\ ncb' = ncb + 1
    /\ UNCHANGED <<envVars, bridgeFnVars, bridgeVars, nodeVars, jvmVars, heap, hc,
                   workers, peerCallback, cbExit, dispatch, ncalls, lookups,
                   storedDir>>

\* nativeRenderCallback returns on T, having taken `path`
CbReturn(T, path, att) ==
    /\ cb' = [cb EXCEPT ![T] = SubSeq(@, 1, Len(@) - 1)]
    /\ cbExit' = [thread |-> T, entry |-> Top(T).entry, exit |-> att,
                  path |-> path]

\* `if (g_javaVM == NULL || g_renderSurface == NULL) return;`
CbCheck(T) ==
    /\ ~crashed
    /\ InCallback(T, "check")
    /\ IF g_javaVM = NULL \/ g_renderSurface = 0
       THEN CbReturn(T, "notarget", jvmAttached[T])
       ELSE SetTop(T, [Top(T) EXCEPT !.pc = "getenv"]) /\ cbExit' = cbExit
    /\ UNCHANGED <<envVars, bridgeFnVars, bridgeVars, nodeVars, jvmVars, heap, hc,
                   workers, peerCallback, ncb, dispatch, ncalls, lookups,
                   storedDir>>

\* `if (GetEnv(...) != JNI_OK) { if (AttachCurrentThread(...) != JNI_OK) return;
\*  attached = 1; }`: GetEnv succeeds exactly on an attached thread
CbGetEnv(T) ==
    /\ ~crashed
    /\ InCallback(T, "getenv")
    /\ IF jvmAttached[T]
       THEN /\ SetTop(T, [Top(T) EXCEPT !.pc = "buffer"])
            /\ UNCHANGED <<jvmAttached, cbExit>>
       ELSE \E attachOk \in BOOLEAN :
              IF attachOk
              THEN /\ jvmAttached' = [jvmAttached EXCEPT ![T] = TRUE]
                   /\ SetTop(T, [Top(T) EXCEPT !.pc = "buffer", !.attached = 1])
                   /\ cbExit' = cbExit
              ELSE /\ jvmAttached' = jvmAttached
                   /\ CbReturn(T, "attachfail", jvmAttached[T])
    /\ UNCHANGED <<envVars, bridgeFnVars, bridgeVars, nodeVars, globalRefs, heap,
                   hc, workers, peerCallback, ncb, dispatch, ncalls, lookups,
                   storedDir>>

\* `jobject buffer = NewDirectByteBuffer(env, pixels, dataSize);` (NULL when
\* the JavaVM cannot allocate it)
CbBuffer(T) ==
    /\ ~crashed
    /\ InCallback(T, "buffer")
    /\ \E buf \in BOOLEAN : SetTop(T, [Top(T) EXCEPT !.pc = "dispatch",
                                                     !.buffer = buf])
    /\ UNCHANGED <<envVars, bridgeFnVars, bridgeVars, nodeVars, jvmVars, heap, hc,
                   workers, peerCallback, ncb, cbExit, dispatch, ncalls, lookups,
                   storedDir>>

\* `if (buffer != NULL && g_onFrameMethod != NULL)
\*      CallVoidMethod(env, g_renderSurface, g_onFrameMethod, buffer, ...);`
CbDispatch(T) ==
    /\ ~crashed
    /\ InCallback(T, "dispatch")
    /\ IF Top(T).buffer /\ g_onFrameMethod # 0
       THEN /\ dispatch' = [ref |-> g_renderSurface, method |-> g_onFrameMethod,
                            live |-> g_renderSurface # 0
                                     /\ globalRefs[g_renderSurface].live,
                            target |-> IF g_renderSurface # 0
                                       THEN globalRefs[g_renderSurface].target
                                       ELSE 0]
            /\ SetTop(T, [Top(T) EXCEPT !.pc = "java", !.path = "dispatched"])
       ELSE /\ dispatch' = dispatch
            /\ SetTop(T, [Top(T) EXCEPT !.pc = "cleanup",
                   !.path = IF Top(T).buffer THEN "nomethod" ELSE "nobuffer"])
    /\ UNCHANGED <<envVars, bridgeFnVars, bridgeVars, nodeVars, jvmVars, heap, hc,
                   workers, peerCallback, ncb, cbExit, ncalls, lookups,
                   storedDir>>

\* the Java method onFrame returns
CbJavaReturn(T) ==
    /\ ~crashed
    /\ InCallback(T, "java")
    /\ SetTop(T, [Top(T) EXCEPT !.pc = "cleanup"])
    /\ UNCHANGED <<envVars, bridgeFnVars, bridgeVars, nodeVars, jvmVars, heap, hc,
                   workers, peerCallback, ncb, cbExit, dispatch, ncalls, lookups,
                   storedDir>>

\* a cleanup that detaches whatever it found
ShouldDetachAlways(frame) == TRUE

\* `if (attached)`
ShouldDetach(frame) == frame.attached = 1

\* `if (buffer != NULL) DeleteLocalRef(env, buffer);
\*  if (attached) DetachCurrentThread(g_javaVM);`
CbCleanup(T) ==
    /\ ~crashed
    /\ InCallback(T, "cleanup")
    /\ LET att == IF ShouldDetach(Top(T)) THEN FALSE ELSE jvmAttached[T] IN
        /\ jvmAttached' = [jvmAttached EXCEPT ![T] = att]
        /\ CbReturn(T, Top(T).path, att)
    /\ UNCHANGED <<envVars, bridgeFnVars, bridgeVars, nodeVars, globalRefs, heap,
                   hc, workers, peerCallback, ncb, dispatch, ncalls, lookups,
                   storedDir>>

(***************************************************************************)
(* node-runner.cpp: initNode, startNode, nodeThreadFunc.                   *)
(***************************************************************************)
ScriptArg == JStr(<<"a", ".", "j", "s">>)

\* a read of the string p points to
UseString(h, p) ==
    IF p = 0 THEN h ELSE [h EXCEPT ![p].uaf = @ \/ h[p].frees > 0]
\* free(p)
FreeString(h, p) == IF p = 0 THEN h ELSE [h EXCEPT ![p].frees = @ + 1]

CallStartNode(t) ==
    /\ Enter(t, "startNode", "ninit_check", [script |-> ScriptArg])
    /\ UNCHANGED <<envVars, bridgeFnVars, bridgeVars, nodeVars, jvmVars, heap,
                   workers, cbVars, lookups, storedDir>>

\* `if (g_nodeStart != NULL) return 1;`
NodeInitCheck(t) ==
    /\ ~crashed
    /\ At(t, "startNode", "ninit_check")
    /\ hc' = [hc EXCEPT ![t].pc = IF g_nodeStart # NULL THEN "node_chars"
                                  ELSE "ninit_dlopen"]
    /\ UNCHANGED <<envVars, bridgeFnVars, bridgeVars, nodeVars, jvmVars, heap,
                   workers, cbVars, ncalls, lookups, storedDir>>

\* `g_nodeHandle = dlopen("libnode.so", RTLD_NOW | RTLD_NOLOAD);
\*  if (!g_nodeHandle) return 0;` and the caller's `return -1;`
NodeInitDlopen(t) ==
    /\ ~crashed
    /\ At(t, "startNode", "ninit_dlopen")
    /\ LET h == DlopenNoLoad(NodeLib) IN
        /\ g_nodeHandle' = h
        /\ handleRefs' = [handleRefs EXCEPT ![NodeLib] =
                              IF h # NULL THEN @ + 1 ELSE @]
        /\ hc' = [hc EXCEPT ![t] = IF h = NULL THEN Return(@, -1)
                                   ELSE [@ EXCEPT !.pc = "ninit_dlsym"]]
    /\ Count(NodeLib)
    /\ UNCHANGED <<pid, exports, hostLoaded, crashed, bridgeFnVars, bridgeVars,
                   g_nodeStart, g_nodeThread, g_scriptPath, jvmVars, heap,
                   workers, cbVars, ncalls, storedDir>>

\* `g_nodeStart = dlsym(g_nodeHandle, "_ZN4node5StartEiPPc");
\*  if (!g_nodeStart) return 0;`
NodeInitDlsym(t) ==
    /\ ~crashed
    /\ At(t, "startNode", "ninit_dlsym")
    /\ LET p == Dlsym(g_nodeHandle, NodeStartSym) IN
        /\ g_nodeStart' = p
        /\ hc' = [hc EXCEPT ![t] = IF p = NULL THEN Return(@, -1)
                                   ELSE [@ EXCEPT !.pc = "node_chars"]]
    /\ Count(NodeStartSym)
    /\ UNCHANGED <<envVars, bridgeFnVars, bridgeVars, g_nodeHandle, g_nodeThread,
                   g_scriptPath, jvmVars, heap, workers, cbVars, ncalls,
                   storedDir>>

\* `path = GetStringUTFChars(scriptPath, NULL); if (!path) return -2;`
NodeChars(t) ==
    /\ ~crashed
    /\ At(t, "startNode", "node_chars")
    /\ \E charsOk \in BOOLEAN :
         hc' = [hc EXCEPT ![t] = IF charsOk THEN [@ EXCEPT !.pc = "node_strdup"]
                                 ELSE Return(@, -2)]
    /\ UNCHANGED <<envVars, bridgeFnVars, bridgeVars, nodeVars, jvmVars, heap,
                   workers, cbVars, ncalls, lookups, storedDir>>

\* `g_scriptPath = strdup(path);`
NodeStrdup(t) ==
    /\ ~crashed
    /\ At(t, "startNode", "node_strdup")
    /\ heap' = Append(heap, [frees |-> 0, uaf |-> FALSE])
    /\ g_scriptPath' = Len(heap')
    /\ hc' = [hc EXCEPT ![t].pc = "node_create", ![t].fx = @ \cup {"alloc"}]
    /\ UNCHANGED <<envVars, bridgeFnVars, bridgeVars, g_nodeHandle, g_nodeStart,
                   g_nodeThread, jvmVars, workers, cbVars, ncalls, lookups,
                   storedDir>>

\* `LOGI("... %s", g_scriptPath);
\*  pthread_create(&g_nodeThread, NULL, nodeThreadFunc, g_scriptPath)`;
\* on success `return 0;` at once
NodeCreate(t) ==
    /\ ~crashed
    /\ At(t, "startNode", "node_create")
    /\ heap' = UseString(heap, g_scriptPath)
    /\ \E created \in BOOLEAN :
        IF created
        THEN /\ workers' = Append(workers, NewWorker("node", g_scriptPath, 0, 0, <<>>))
             /\ g_nodeThread' = Len(workers) + 1
             /\ hc' = [hc EXCEPT ![t] = Acknowledge([@ EXCEPT !.fx = @ \cup {"thread"}])]
        ELSE /\ UNCHANGED <<workers, g_nodeThread>>
             /\ hc' = [hc EXCEPT ![t].pc = "node_free"]
    /\ UNCHANGED <<envVars, bridgeFnVars, bridgeVars, g_nodeHandle, g_nodeStart,
                   g_scriptPath, jvmVars, cbVars, ncalls, lookups, storedDir>>

\* `free(g_scriptPath);`
NodeFree(t) ==
    /\ ~crashed
    /\ At(t, "startNode", "node_free")
    /\ heap' = FreeString(heap, g_scriptPath)
    /\ hc' = [hc EXCEPT ![t].pc = "node_null"]
    /\ UNCHANGED <<envVars, bridgeFnVars, bridgeVars, nodeVars, jvmVars, workers,
                   cbVars, ncalls, lookups, storedDir>>

\* `g_scriptPath = NULL; return -3;`
NodeNull(t) ==
    /\ ~crashed
    /\ At(t, "startNode", "node_null")
    /\ g_scriptPath' = 0
    /\ hc' = [hc EXCEPT ![t] = Return(@, -3)]
    /\ UNCHANGED <<envVars, bridgeFnVars, bridgeVars, g_nodeHandle, g_nodeStart,
                   g_nodeThread, jvmVars, heap, workers, cbVars, ncalls, lookups,
                   storedDir>>

\* nodeThreadFunc: `LOGI("... %s", scriptPath); g_nodeStart(argc, argv);`
NodeWorkerRun(w) ==
    /\ ~crashed
    /\ workers[w].kind = "node" /\ workers[w].pc = "start"
    /\ heap' = UseString(heap, workers[w].arg)
    /\ SetWorker(w, [workers[w] EXCEPT !.pc = "blocked",
           !.peer = Append(@, Inv(g_nodeStart, workers[w].arg, 0, 0, <<>>))])
    /\ UNCHANGED <<envVars, bridgeFnVars, bridgeVars, nodeVars, jvmVars, hc,
                   cbVars, ncalls, lookups, storedDir>>

\* nodeThreadFunc: `free(scriptPath); return NULL;`
NodeWorkerFree(w) ==
    /\ ~crashed
    /\ workers[w].kind = "node" /\ workers[w].pc = "returned"
    /\ heap' = FreeString(heap, workers[w].arg)
    /\ SetWorker(w, [workers[w] EXCEPT !.pc = "done"])
    /\ UNCHANGED <<envVars, bridgeFnVars, bridgeVars, nodeVars, jvmVars, hc,
                   cbVars, ncalls, lookups, storedDir>>

(***************************************************************************)
(* ffi_callback.c: callEventCallback, as the bridge calls it on thread t.  *)
(***************************************************************************)
\* the callback pointers the bridge passes (0 is NULL) and the event strings
Callbacks == {0, 1, 2}
EventChars == {"{", "e", "}"}
Events == UNION {[1..n -> EventChars] : n \in 0..MaxEventLen}

\* a helper that calls without looking at the pointer
InvokeCallbackAlways(callback, eventJson) ==
    <<Inv("EventCallback", callback, 0, 0, eventJson)>>

\* `if (callback != NULL) ((EventCallback)callback)(eventJson);`: the calls
\* the callback receives
InvokeCallback(callback, eventJson) ==
    IF callback # 0 THEN <<Inv("EventCallback", callback, 0, 0, eventJson)>>
    ELSE <<>>

CallEventCallback(t) ==
    \E callback \in Callbacks, eventJson \in Events :
        /\ Enter(t, "callEventCallback", "ev_check",
                 [flag |-> callback, str |-> eventJson])
        /\ UNCHANGED <<envVars, bridgeFnVars, bridgeVars, nodeVars, jvmVars, heap,
                       workers, cbVars, lookups, storedDir>>

EventCheck(t) ==
    /\ ~crashed
    /\ At(t, "callEventCallback", "ev_check")
    /\ hc' = [hc EXCEPT ![t] =
                Return([@ EXCEPT !.peer = InvokeCallback(hc[t].flag, hc[t].str)],
                       0)]
    /\ UNCHANGED <<envVars, bridgeFnVars, bridgeVars, nodeVars, jvmVars, heap,
                   workers, cbVars, ncalls, lookups, storedDir>>

(***************************************************************************)
(* The host process around the adapter.                                    *)
(***************************************************************************)
\* `g_javaVM = vm;` when the JavaVM loads the wrapper library
JNI_OnLoad ==
    /\ ~crashed
    /\ ncalls = 0
    /\ g_javaVM = NULL
    /\ g_javaVM' = "vm"
    /\ UNCHANGED <<envVars, bridgeFnVars, g_socketDir, g_renderSurface,
                   g_onFrameMethod, g_screenWidth, g_screenHeight, g_bridgeThread,
                   g_bridgeTestMode, nodeVars, jvmVars, heap, hc, workers, cbVars,
                   ncalls, lookups, storedDir>>

\* the host loads a peer library (System.loadLibrary), between its calls
HostLoad(lib) ==
    /\ ~crashed
    /\ \A t \in HostThreads : Free(t)
    /\ ~hostLoaded[lib]
    /\ hostLoaded' = [hostLoaded EXCEPT ![lib] = TRUE]
    /\ UNCHANGED <<pid, exports, handleRefs, crashed, bridgeFnVars, bridgeVars,
                   nodeVars, jvmVars, heap, hc, workers, cbVars, ncalls, lookups,
                   storedDir>>

(***************************************************************************)
(* The state machine.                                                      *)
(***************************************************************************)
\* the adapter before the host's first call, in one of the processes procs
InitIn(procs) ==
    /\ pid = Pid
    /\ \E p \in procs :
         exports = p.exports /\ hostLoaded = p.hostLoaded /\ g_javaVM = p.vm
    /\ handleRefs = [l \in Libs |-> 0]
    /\ crashed = FALSE
    /\ g_bridgeHandle = NULL
    /\ g_fn = [s \in BridgeSyms |-> NULL]
    /\ g_socketDir = <<>>
    /\ g_renderSurface = 0
    /\ g_onFrameMethod = 0
    /\ g_screenWidth = 0
    /\ g_screenHeight = 0
    /\ g_bridgeThread = 0
    /\ g_bridgeTestMode = 0
    /\ g_nodeHandle = NULL
    /\ g_nodeStart = NULL
    /\ g_nodeThread = 0
    /\ g_scriptPath = 0
    /\ globalRefs = <<>>
    /\ jvmAttached = [T \in NativeThreads |-> FALSE]
    /\ heap = <<>>
    /\ hc = [t \in HostThreads |-> IdleCall]
    /\ workers = <<>>
    /\ cb = [T \in NativeThreads |-> <<>>]
    /\ peerCallback = FALSE
    /\ ncalls = 0
    /\ ncb = 0
    /\ lookups = [n \in Libs \cup BridgeSyms \cup {NodeStartSym} |-> 0]
    /\ storedDir = JNull
    /\ cbExit = [thread |-> 0, entry |-> FALSE, exit |-> FALSE, path |-> "none"]
    /\ dispatch = [ref |-> 0, method |-> 0, live |-> FALSE, target |-> 0]

Init == InitIn(Processes)

\* the steps of host thread t, by operation
InitStep(t) == InitCheck(t) \/ InitDlopen(t) \/ InitDlsym(t)

SyncStep(t) == CallSync(t) \/ InvokeSync(t)

InputStep(t) == CallSetScreenSize(t) \/ SsStore(t) \/ SsCall(t) \/ sendTouch(t)

BackgroundStep(t) ==
    \/ CallStartBridgeInBackground(t) \/ BgDir(t) \/ BgMode(t) \/ BgCreate(t)
    \/ getBridgeSocketPath(t)

EmbeddedStep(t, sizes, dirs, targets) ==
    \/ CallStartEmbeddedBridge(t, sizes, dirs, targets) \/ EmbAvail(t) \/ EmbSize(t) \/ EmbDir(t)
    \/ EmbRef(t) \/ EmbMethod(t) \/ EmbCheck(t) \/ EmbDelete(t) \/ EmbClear(t)
    \/ EmbCreate(t)

SleepStep(t) == Tick(t) \/ Wake(t)

NodeStep(t) ==
    \/ CallStartNode(t) \/ NodeInitCheck(t) \/ NodeInitDlopen(t)
    \/ NodeInitDlsym(t) \/ NodeChars(t) \/ NodeStrdup(t) \/ NodeCreate(t)
    \/ NodeFree(t) \/ NodeNull(t)

\* a step of worker thread w
WorkerStep(w, codes) ==
    \/ BridgeRead(w) \/ BridgeCall(w) \/ PeerReturns(w, codes)
    \/ EmbWorkerAttach(w) \/ EmbWorkerRegister(w) \/ EmbWorkerStart(w)
    \/ EmbWorkerDetach(w)
    \/ NodeWorkerRun(w) \/ NodeWorkerFree(w)

\* a step of a render callback on native thread T
CallbackStep(T) ==
    \/ Deliver(T) \/ CbCheck(T) \/ CbGetEnv(T) \/ CbBuffer(T) \/ CbDispatch(T)
    \/ CbJavaReturn(T) \/ CbCleanup(T)

EnvStep == JNI_OnLoad \/ \E lib \in Libs : HostLoad(lib)

\* the host calls the adapter from one thread (the activity's main thread)
\* and the workers it creates run beside it
Next ==
    \/ InitStep("h1") \/ SyncStep("h1") \/ InputStep("h1")
    \/ BackgroundStep("h1") \/ EmbeddedStep("h1", Sizes, DirArgs, {0, 1, 3})
    \/ SleepStep("h1")
    \/ NodeStep("h1")
    \/ \E w \in DOMAIN workers : WorkerStep(w, {0})
    \/ EnvStep

Spec == Init /\ [][Next]_vars

\* the render path: the host starts the embedded bridge from its one thread,
\* and the peer delivers frames on its own threads while it does
NextRender ==
    \/ InitStep("h1") \/ EmbeddedStep("h1", {<<320, 480>>}, {JNull}, Targets \cup {0})
    \/ SleepStep("h1")
    \/ \E w \in DOMAIN workers : WorkerStep(w, {0})
    \/ \E T \in NativeThreads : CallbackStep(T)
    \/ EnvStep

SpecRender == Init /\ [][NextRender]_vars

\* the launches: the host starts the servers from its one thread, and each
\* blocking peer call may return any status on its worker
NextLaunch ==
    \/ InitStep("h1") \/ BackgroundStep("h1")
    \/ EmbeddedStep("h1", {<<320, 480>>}, {JNull, JStr(CustomDir)}, {0, 1, 3})
    \/ SleepStep("h1")
    \/ NodeStep("h1")
    \/ \E w \in DOMAIN workers : WorkerStep(w, RetCodes)
    \/ EnvStep

SpecLaunch == Init /\ [][NextLaunch]_vars

\* first calls from two host threads at once, against builds that have the
\* required entry points
RaceBuilds ==
    {Process(b, {NodeStartSym}, TRUE, "vm") : b \in {BridgeSyms, RequiredSyms}}

InitRace == InitIn(RaceBuilds)

NextRace ==
    \E t \in HostThreads : InitStep(t) \/ SyncStep(t)

SpecRace == InitRace /\ [][NextRace]_vars

\* startNode from two host threads, beside the Node.js workers
NodeProcesses ==
    {Process(BridgeSyms, {NodeStartSym}, TRUE, "vm"),
     Process(BridgeSyms, {}, TRUE, "vm")}

InitNodeRace == InitIn(NodeProcesses)

NodeWorkerStep(w) == NodeWorkerRun(w) \/ PeerReturns(w, {0}) \/ NodeWorkerFree(w)

NextNode ==
    \/ \E t \in HostThreads : NodeStep(t)
    \/ \E w \in DOMAIN workers : NodeWorkerStep(w)

SpecNode == InitNodeRace /\ [][NextNode]_vars

\* the bridge's event helper, called with every callback and event
NextEvent == CallEventCallback("h1") \/ EventCheck("h1")

InitEvent == InitIn({Process(BridgeSyms, {NodeStartSym}, TRUE, "vm")})

SpecEvent == InitEvent /\ [][NextEvent]_vars

\* resolution against every build that has the required entry points: any
\* set of the optional ones may be missing
OptionalBuilds ==
    {Process(RequiredSyms \cup o, {NodeStartSym}, TRUE, "vm") :
        o \in SUBSET OptionalSyms}
    \cup {Process(RequiredSyms, {NodeStartSym}, FALSE, "vm")}

InitResolve == InitIn(OptionalBuilds)

NextResolve ==
    \/ InitStep("h1") \/ SyncStep("h1") \/ InputStep("h1")
    \/ \E lib \in Libs : HostLoad(lib)

SpecResolve == InitResolve /\ [][NextResolve]_vars

(***************************************************************************)
(* Properties.                                                             *)
(***************************************************************************)
\* a finished call of host thread t
Done(t) == hc[t].pc = "done"
DoneOp(t, ops) == Done(t) /\ hc[t].op \in ops

LaunchOps == {"startBridgeInBackground", "startEmbeddedBridge"}

\* C1: when a required entry point is absent from the library the host has
\* already loaded, every call of an operation that needs initialisation
\* returns -1, and no NULL entry point is ever invoked (the process never
\* dies of a call through a NULL pointer).
C1_RequiredAbsentRefused ==
    ~(RequiredSyms \subseteq exports[BridgeLib]) =>
        /\ ~crashed
        /\ \A t \in HostThreads :
             DoneOp(t, InitOps) /\ hc[t].libSeen => hc[t].ret = -1

\* C2: nativeRenderCallback leaves the calling thread's attachment to the
\* Java VM as it found it, on every path: a thread it attached is detached
\* before it returns, a thread that was attached stays attached.
C2_AttachmentRestored == cbExit.exit = cbExit.entry

\* C2 witness: a nested frame delivered on the peer's thread while the outer
\* callback (which attached the thread) is inside onFrame has dispatched and
\* returned, leaving the thread attached.
C2_Witness ==
    /\ cbExit = [thread |-> PeerThread, entry |-> TRUE, exit |-> TRUE,
                 path |-> "dispatched"]
    /\ Len(cb[PeerThread]) = 1
    /\ cb[PeerThread][1].attached = 1
    /\ jvmAttached[PeerThread]

\* C3: at most one live worker thread per long-running peer entry point:
\* the UDS server (bridgeThreadFunc) and the embedded bridge
\* (embeddedBridgeThreadFunc).
C3_OneLiveWorker ==
    /\ Cardinality(LiveWorkers("bridge")) <= 1
    /\ Cardinality(LiveWorkers("embedded")) <= 1

\* C4: for a library that stays loaded, the handle is obtained by at most
\* one successful dlopen and each entry point is looked up at most once in
\* the life of the process.
C4_ResolvedOnce ==
    /\ \A l \in Libs : handleRefs[l] <= 1
    /\ \A n \in BridgeSyms \cup {NodeStartSym} : lookups[n] <= 1

\* C5: when the peer library is not loaded in the process, every operation
\* that needs it returns -1: nothing is stored, no thread is created, no
\* peer entry point is invoked; and the adapter never loads a library the
\* host has not loaded.
C5_NotLoadedRefused ==
    /\ \A t \in HostThreads :
         DoneOp(t, InitOps \cup {"startNode"}) /\ ~hc[t].libSeen =>
             hc[t].ret = -1 /\ hc[t].fx = {} /\ hc[t].peer = <<>>
    /\ \A l \in Libs : handleRefs[l] > 0 => hostLoaded[l]
    /\ (\A l \in Libs : ~hostLoaded[l]) => workers = <<>>

\* C5 witness: startEmbeddedBridge called before the host loaded the bridge
\* library returned -1 and left the screen size an earlier setScreenSize
\* stored.
C5_Witness ==
    /\ DoneOp("h1", {"startEmbeddedBridge"})
    /\ ~hc["h1"].libSeen
    /\ hc["h1"].ret = -1
    /\ g_screenWidth # 0
    /\ g_screenWidth # hc["h1"].width
    /\ workers = <<>>

\* C6: with every required entry point present, initialisation succeeds
\* whatever subset of the optional ones is missing (the pass-through call
\* reaches the peer and nothing is called through NULL); setScreenSize and
\* the touch operations return normally without calling the peer when their
\* entry point is NULL.
C6_OptionalMayBeAbsent ==
    /\ RequiredSyms \subseteq exports[BridgeLib] => ~crashed
    /\ \A t \in HostThreads :
         /\ DoneOp(t, SyncOps) /\ hc[t].libSeen
                /\ RequiredSyms \subseteq exports[BridgeLib]
              => Len(hc[t].peer) = 1 /\ hc[t].peer[1].f = hc[t].op
         /\ DoneOp(t, {"setScreenSize"}) /\ g_SetAndroidScreenSize = NULL
              => hc[t].peer = <<>> /\ hc[t].ret = 0
         /\ DoneOp(t, TouchOps) /\ g_fn[TouchSym(hc[t].op)] = NULL
              => hc[t].peer = <<>>

\* C6 witness: initialisation has run against a build without the touch
\* entry points (the required ones are resolved, the touch ones NULL) and a
\* touch operation has then returned without a peer call.
C6_Witness ==
    /\ DoneOp("h1", TouchOps)
    /\ hc["h1"].peer = <<>>
    /\ g_TsyneInit # NULL /\ g_StartBridgeGrpc # NULL
    /\ lookups["SendAndroidTouchDown"] = 1
    /\ g_SendAndroidTouchDown = NULL
    /\ g_SetAndroidRenderCallback # NULL

\* C7 (as stated): each launch operation (startBridgeInBackground,
\* startEmbeddedBridge, startNode) that created its worker returns only
\* after the calling thread has been delayed by at least the settle delay.
C7_EveryLaunchSettles ==
    \A t \in HostThreads :
        DoneOp(t, LaunchOps \cup {"startNode"}) /\ "thread" \in hc[t].fx =>
            hc[t].slept >= SettleDelayUs

\* C7 (amended): startBridgeInBackground and startEmbeddedBridge, once they
\* have created their worker, return 0 only after the calling thread has
\* been delayed by at least the settle delay, whatever the worker has done
\* meanwhile; startNode returns at once.
C7_BridgeLaunchSettles ==
    \A t \in HostThreads :
        /\ DoneOp(t, LaunchOps) /\ "thread" \in hc[t].fx =>
              hc[t].slept >= SettleDelayUs /\ hc[t].ret = 0
        /\ DoneOp(t, {"startNode"}) => hc[t].slept = 0

\* C7 witness: startBridgeInBackground has returned after the delay while
\* the worker it created has not run yet.
C7_Witness ==
    /\ DoneOp("h1", {"startBridgeInBackground"})
    /\ "thread" \in hc["h1"].fx
    /\ hc["h1"].slept >= SettleDelayUs
    /\ g_bridgeThread \in DOMAIN workers
    /\ workers[g_bridgeThread].pc = "start"

\* C8: getBridgeSocketPath returns "<D>/tsyne-<pid>.sock" when a launch
\* operation has stored a directory D of 1..511 characters, and
\* "/data/local/tmp/tsyne-<pid>.sock" when none was stored.
C8_SocketPathOfStoredDir ==
    \A t \in HostThreads :
        DoneOp(t, {"getBridgeSocketPath"}) =>
            IF storedDir.isNull
            THEN hc[t].str = SocketPathFormat(DefaultSocketDir, pid)
            ELSE Len(storedDir.chars) \in 1..(SocketDirSize - 1) =>
                    hc[t].str = SocketPathFormat(storedDir.chars, pid)

\* C9: while an embedded-bridge worker started by a call that registered a
\* render target is active, g_renderSurface holds a live global reference.
C9_TargetHeldWhileWorkerActive ==
    \A w \in DOMAIN workers :
        workers[w].kind = "embedded" /\ Live(w) /\ workers[w].target # 0 =>
            /\ g_renderSurface # 0
            /\ globalRefs[g_renderSurface].live

\* C10: startEmbeddedBridge with a non-null target whose class has no
\* onFrame(ByteBuffer,int,int,int) creates no worker and calls no peer
\* entry point, leaves no live global reference to the target and none
\* stored, and returns -3 (when initialisation succeeded and
\* StartBridgeAndroidEmbedded is available; -1 or -2 before that).
C10_BadTargetRejected ==
    \A t \in HostThreads :
        DoneOp(t, {"startEmbeddedBridge"}) /\ hc[t].target # 0
            /\ ~HasOnFrame(hc[t].target) =>
                /\ "thread" \notin hc[t].fx
                /\ hc[t].peer = <<>>
                /\ hc[t].ret \in {-1, -2, -3}
                /\ hc[t].libSeen /\ RequiredSyms \subseteq exports[BridgeLib]
                      /\ "StartBridgeAndroidEmbedded" \in exports[BridgeLib]
                    => hc[t].ret = -3
                /\ "target" \in hc[t].fx => hc[t].ret = -3
                /\ \A r \in DOMAIN globalRefs :
                     globalRefs[r].target = hc[t].target => ~globalRefs[r].live
                /\ g_renderSurface = 0

\* C10 witness: the call has taken a global reference to the bad target,
\* released it and returned -3, with no worker.
C10_Witness ==
    /\ DoneOp("h1", {"startEmbeddedBridge"})
    /\ hc["h1"].target = 3
    /\ hc["h1"].ret = -3
    /\ Len(globalRefs) = 1
    /\ globalRefs[1] = [target |-> 3, live |-> FALSE]
    /\ g_renderSurface = 0
    /\ workers = <<>>

\* C15: every dispatch nativeRenderCallback makes uses a global reference
\* that is still live, with the onFrame method id resolved from that same
\* target, whatever startEmbeddedBridge is doing meanwhile.
C15_DispatchOnLiveTarget ==
    dispatch.method # 0 =>
        /\ dispatch.ref # 0
        /\ dispatch.live
        /\ dispatch.method = GetMethodID(dispatch.target)

\* the negative codes each launch operation may fail with
FailureCodes(op) ==
    CASE op = "startBridgeInBackground" -> {-1, -2}
      [] op = "startEmbeddedBridge" -> {-1, -2, -3, -4}
      [] op = "startNode" -> {-1, -2, -3}

\* a finished launch returned 0 exactly when it created its worker, and one of
\* its negative codes otherwise
LaunchResultFixed ==
    \A t \in HostThreads :
        DoneOp(t, LaunchOps \cup {"startNode"}) =>
            /\ hc[t].ret = 0 <=> "thread" \in hc[t].fx
            /\ hc[t].ret # 0 => hc[t].ret \in FailureCodes(hc[t].op)

\* a step of a running worker leaves the host calls and the adapter's
\* globals as they were
WorkerKeepsState ==
    (\E w \in DOMAIN workers : workers'[w] # workers[w]) =>
        UNCHANGED <<hc, bridgeFnVars, bridgeVars, nodeVars, globalRefs>>

\* C11: the value a background launch returns is fixed by the launch steps
\* alone: 0 exactly when the worker thread was created, a negative code
\* when a launch step failed; the status the peer returns on the worker, or
\* the worker's failure to attach, changes neither it nor any adapter state.
C11_LaunchResultIgnoresWorker == []LaunchResultFixed /\ [][WorkerKeepsState]_vars

\* C11 witness: startBridgeInBackground has returned 0 although the peer's
\* server returned -1 on its worker while the call was still waiting.
C11_Witness ==
    /\ DoneOp("h1", {"startBridgeInBackground"})
    /\ hc["h1"].ret = 0
    /\ Len(workers) = 1
    /\ workers[1].pc = "done"
    /\ workers[1].status = -1

\* C12: when initialisation succeeds, TsyneInit, StartBridgeMsgpackUDS and
\* StartBridgeGrpc each invoke their peer entry point exactly once, on the
\* calling thread, with the argument given, and return the peer's status
\* unchanged, negative codes included.
C12_PassThrough ==
    \A t \in HostThreads :
        DoneOp(t, SyncOps) =>
            /\ hc[t].libSeen /\ RequiredSyms \subseteq exports[BridgeLib]
                  => hc[t].peer # <<>>
            /\ hc[t].peer # <<>> =>
                  /\ hc[t].peer = <<Inv(hc[t].op, hc[t].flag, 0, 0, <<>>)>>
                  /\ hc[t].ret = hc[t].status

\* C12 witness: StartBridgeGrpc(1) has called the peer once and returned the
\* peer's -1.
C12_Witness ==
    /\ DoneOp("h1", {"StartBridgeGrpc"})
    /\ hc["h1"].flag = 1
    /\ Len(hc["h1"].peer) = 1
    /\ hc["h1"].status = -1
    /\ hc["h1"].ret = -1

\* C13: with the required entry points present, whenever
\* initFunctionPointers has reported success to a thread (the thread is
\* about to call its entry point), TsyneInit, StartBridgeMsgpackUDS and
\* StartBridgeGrpc are all resolved, and no thread calls through NULL,
\* under any interleaving of first calls from several threads.
C13_SuccessMeansResolved ==
    RequiredSyms \subseteq exports[BridgeLib] =>
        /\ ~crashed
        /\ \A t \in HostThreads :
             hc[t].op \in SyncOps /\ hc[t].pc = "invoke" =>
                 \A n \in RequiredSyms : g_fn[n] # NULL

\* C14: every worker startBridgeInBackground creates calls the peer's start
\* entry point with the testMode and the socket directory of the call that
\* created it, whatever later host calls have stored meanwhile.
C14_WorkerUsesOwnArguments ==
    \A w \in DOMAIN workers :
        workers[w].kind = "bridge" /\ workers[w].peer # <<>> =>
            LET call == workers[w].peer[1] IN
            /\ call.i = workers[w].mode
            /\ IF call.f = "StartBridgeMsgpackUDSWithDir"
               THEN call.s = workers[w].dir
               ELSE workers[w].dir = <<>>
                    \/ g_StartBridgeMsgpackUDSWithDir = NULL

\* the orders in which the embedded worker may take its steps
EmbOrders ==
    {<<"attach", "register", "start", "returned", "detach">>,
     <<"attach", "start", "returned", "detach">>}

IsPrefix(a, b) == Len(a) <= Len(b) /\ SubSeq(b, 1, Len(a)) = a

\* the peer entry points a sequence of steps calls
RECURSIVE PeerCallsOf(_)
PeerCallsOf(tr) ==
    IF tr = <<>> THEN <<>>
    ELSE (IF Head(tr) = "register" THEN <<"SetAndroidRenderCallback">>
          ELSE IF Head(tr) = "start" THEN <<"StartBridgeAndroidEmbedded">>
          ELSE <<>>) \o PeerCallsOf(Tail(tr))

\* C16: the embedded worker attaches to the JavaVM first, then registers the
\* render callback (when SetAndroidRenderCallback is available), then calls
\* StartBridgeAndroidEmbedded, and detaches only after that call returned;
\* with the JavaVM unknown or the attach failed it ends without a peer call
\* and without detaching.
C16_EmbeddedWorkerOrder ==
    \A w \in DOMAIN workers :
        workers[w].kind = "embedded" =>
            LET tr == workers[w].trace IN
            /\ \E o \in EmbOrders : IsPrefix(tr, o)
            /\ [i \in 1..Len(workers[w].peer) |-> workers[w].peer[i].f]
                  = PeerCallsOf(tr)
            /\ "start" \in {tr[i] : i \in 1..Len(tr)}
                  /\ g_SetAndroidRenderCallback # NULL
                => tr[2] = "register"
            /\ g_javaVM = NULL => tr = <<>>
            /\ tr = <<>> => workers[w].pc \in {"start", "done"}
                            /\ ~jvmAttached[w]
            /\ workers[w].pc = "done" /\ tr # <<>> => tr \in EmbOrders
            /\ jvmAttached[w] <=>
                  tr # <<>> /\ tr[Len(tr)] # "detach"

\* C16 witness: an embedded worker has attached, registered the callback,
\* started the bridge, seen it return and detached.
C16_Witness ==
    \E w \in DOMAIN workers :
        /\ workers[w].kind = "embedded"
        /\ workers[w].pc = "done"
        /\ workers[w].trace = <<"attach", "register", "start", "returned", "detach">>
        /\ Len(workers[w].peer) = 2
        /\ ~jvmAttached[w]

\* C17: every worker startBridgeInBackground creates, once past its choice,
\* has called exactly one peer start entry point exactly once:
\* StartBridgeMsgpackUDSWithDir with the cached directory when one is
\* cached and that entry point is resolved, StartBridgeMsgpackUDS
\* otherwise; it is never left without a server to start.
C17_OneServerStart ==
    \A w \in DOMAIN workers :
        workers[w].kind = "bridge" /\ workers[w].pc \notin {"start", "choose"} =>
            /\ Len(workers[w].peer) = 1
            /\ LET call == workers[w].peer[1] IN
                IF call.f = "StartBridgeMsgpackUDSWithDir"
                THEN call.s # <<>> /\ g_StartBridgeMsgpackUDSWithDir # NULL
                ELSE /\ call.f = "StartBridgeMsgpackUDS"
                     /\ g_StartBridgeMsgpackUDSWithDir = NULL
                        \/ workers[w].dir = <<>>

\* C18: every copy of the script path startNode makes is freed exactly once
\* and never used after it was freed, under any interleaving of startNode
\* calls: never freed twice, never read after free, and freed once every
\* call and every worker has finished.
C18_ScriptPathFreedOnce ==
    /\ \A p \in DOMAIN heap : heap[p].frees <= 1 /\ ~heap[p].uaf
    /\ (\A t \in HostThreads : Free(t)) /\ (\A w \in DOMAIN workers : ~Live(w))
          => \A p \in DOMAIN heap : heap[p].frees = 1

\* C19: callEventCallback calls the given callback exactly once with the
\* given event string, unchanged, when the callback pointer is not NULL,
\* and does nothing when it is NULL.
C19_EventDelivered ==
    \A t \in HostThreads :
        DoneOp(t, {"callEventCallback"}) =>
            IF hc[t].flag = 0 THEN hc[t].peer = <<>>
            ELSE /\ Len(hc[t].peer) = 1
                 /\ hc[t].peer[1].f = "EventCallback"
                 /\ hc[t].peer[1].i = hc[t].flag
                 /\ hc[t].peer[1].s = hc[t].str

\* C19 witness: the callback 2 has received the event "{e}" once.
C19_Witness ==
    /\ DoneOp("h1", {"callEventCallback"})
    /\ hc["h1"].flag = 2
    /\ hc["h1"].str = <<"{", "e", "}">>
    /\ hc["h1"].peer = <<Inv("EventCallback", 2, 0, 0, <<"{", "e", "}">>)>>

=============================================================================
